---- MODULE Spec2Model ----
(***************************************************************************)
(* Model of src/main.cpp: three curve classes (Circle, Ellipse, Helix)     *)
(* whose constructors exit(1) on a non-positive parameter, and main(),     *)
(* which generates 5 random curves, reports each at t = PI/4, filters the  *)
(* circles into a second vector of pointers, sorts it by radius, sums the  *)
(* radii in an OpenMP parallel-for reduction, prints, and deletes.         *)
(*                                                                         *)
(* Numbers.  Every double of the program is a rational with denominator    *)
(* Den = 2 * RAND_MAX (rand()/RAND_MAX*10+1, rand()/RAND_MAX*5+1 and half  *)
(* of the former), so a double d is held as the integer d * Den.  Rounding *)
(* of the double arithmetic is not modelled.                               *)
(***************************************************************************)
EXTENDS Integers, Sequences, FiniteSets

\* RAND_MAX of the modelled C library (the real one is at least 32767).
RandMax == 7
\* size of the OpenMP team is any of 1..MaxThreads
MaxThreads == 2
\* loop bound of the generator, main.cpp:112
NumCurves == 5
\* rand() % 3, main.cpp:115
NumTypes == 3

Den == 2 * RandMax

\* std::rand() returns any value of 0 .. RAND_MAX.
Rand == 0 .. RandMax

\* The values of rand() that the runs of main() are explored with: the draw
\* of the curve type ranges over all of Rand, the draw of the radius over both
\* ends of it and the draw of the step over its lower end (the smallest
\* parameters a constructor can receive).  DrawAny ranges over all of Rand
\* for the three draws.
RadiusDraws == {0, RandMax}
StepDraws == {0}

VARIABLES
    pc,               \* position of the main thread in main()
    status,           \* "running", "exit0" (return 0) or "exit1" (exit(1))
    heap,             \* heap[p]: the object new returned at address p
    deleted,          \* deleted[p]: how many times delete ran on address p
    curves,           \* std::vector<Curve3D*> curves
    i,                \* loop index of the loop the main thread is in
    randomRadius,     \* locals of the generator loop body (0 when out of scope)
    randomStep,
    curveType,
    circleContainer,  \* std::vector<const Circle*> circleContainer
    totalSumOfRadii,
    nthreads,         \* team size of the parallel region (0 outside it)
    owner,            \* owner[k]: the thread that runs loop iteration k
    iterDone,         \* iterations of the reduction loop already run
    partial,          \* partial[t]: thread t's private copy of the reduction variable
    combined,         \* threads whose private copy was added to the original
    out,              \* what was written to std::cout, one record per report
    err,              \* what was written to std::cerr
    ub                \* TRUE once a deleted object was read or deleted again

vars == <<pc, status, heap, deleted, curves, i, randomRadius, randomStep, curveType,
          circleContainer, totalSumOfRadii, nthreads, owner, iterDone, partial,
          combined, out, err, ub>>

genLocals == <<randomRadius, randomStep, curveType>>
ompVars == <<nthreads, owner, iterDone, partial, combined>>

----------------------------------------------------------------------------
\* Curve classes

\* the value a constructor that called exit(1) never returns
Exited(msg) == [tag |-> "exit", msg |-> msg]

\* Circle::Circle with the test written radius < 0
CircleStrict(r) ==
    IF r < 0 THEN Exited("Error: Circle radius must be positive.")
    ELSE [tag |-> "Circle", radius |-> r]

\* Circle::Circle
Circle(r) ==
    IF r <= 0 THEN Exited("Error: Circle radius must be positive.")
    ELSE [tag |-> "Circle", radius |-> r]

\* Ellipse::Ellipse
Ellipse(majorRadius, minorRadius) ==
    IF majorRadius <= 0 \/ minorRadius <= 0
    THEN Exited("Error: Ellipse radii must be positive.")
    ELSE [tag |-> "Ellipse", a |-> majorRadius, b |-> minorRadius]

\* Helix::Helix
Helix(r, s) ==
    IF r <= 0 \/ s <= 0
    THEN Exited("Error: Helix radius and step must be positive.")
    ELSE [tag |-> "Helix", radius |-> r, step |-> s]

\* getRadius, by dynamic type
getRadius(c) == IF c.tag = "Ellipse" THEN c.a ELSE c.radius

\* Helix::getStep
getStep(c) == c.step

\* evaluate(t, x, y, z) at t = PI/4: a coordinate is k * f(t), kept as <<k, f>>
evaluate(c) ==
    CASE c.tag = "Circle"  -> << <<c.radius, "cos">>, <<c.radius, "sin">>, <<0, "one">> >>
      [] c.tag = "Ellipse" -> << <<c.a, "cos">>, <<c.b, "sin">>, <<0, "one">> >>
      [] c.tag = "Helix"   -> << <<c.radius, "cos">>, <<c.radius, "sin">>, <<c.step, "t/2pi">> >>

\* derivative(t, dx, dy, dz) at t = PI/4
derivative(c) ==
    CASE c.tag = "Circle"  -> << <<0 - c.radius, "sin">>, <<c.radius, "cos">>, <<0, "one">> >>
      [] c.tag = "Ellipse" -> << <<0 - c.a, "sin">>, <<c.b, "cos">>, <<0, "one">> >>
      [] c.tag = "Helix"   -> << <<0 - c.radius, "sin">>, <<c.radius, "cos">>, <<c.step, "1/2pi">> >>

----------------------------------------------------------------------------
\* main()

Init ==
    /\ pc = "gen"
    /\ status = "running"
    /\ heap = << >>
    /\ deleted = << >>
    /\ curves = << >>
    /\ i = 0
    /\ randomRadius = 0
    /\ randomStep = 0
    /\ curveType = 0
    /\ circleContainer = << >>
    /\ totalSumOfRadii = 0
    /\ nthreads = 0
    /\ owner = << >>
    /\ iterDone = {}
    /\ partial = << >>
    /\ combined = {}
    /\ out = << >>
    /\ err = << >>
    /\ ub = FALSE

\* the radius draw without its + 1.0
RadiusOfNoOffset(r) == r * 20

\* static_cast<double>(std::rand()) / RAND_MAX * 10.0 + 1.0, times Den
RadiusOf(r) == r * 20 + Den

\* the step draw scaled by 6.0 instead of 5.0
StepOfWide(r) == r * 12 + Den

\* static_cast<double>(std::rand()) / RAND_MAX * 5.0 + 1.0, times Den
StepOf(r) == r * 10 + Den

\* randomRadius * 0.5
Half(x) == x \div 2

\* the switch of the generator: the object the new-expression constructs
NewCurve(ty, radius, step) ==
    CASE ty = 0 -> Circle(radius)
      [] ty = 1 -> Ellipse(radius, Half(radius))
      [] ty = 2 -> Helix(radius, step)

\* new T(...) followed by curves.push_back(curve); a constructor that
\* exits ends the process inside the new-expression
PushNew(obj, next) ==
    IF obj.tag = "exit"
    THEN /\ err' = Append(err, obj.msg)
         /\ status' = "exit1"
         /\ pc' = "exit"
         /\ UNCHANGED <<heap, deleted, curves, i>>
    ELSE /\ heap' = Append(heap, obj)
         /\ deleted' = Append(deleted, 0)
         /\ curves' = Append(curves, Len(heap) + 1)
         /\ i' = i + 1
         /\ pc' = next
         /\ UNCHANGED <<err, status>>

\* the three calls of std::rand() that start an iteration of the generator
\* loop, with the values rand() returns taken from R1, R2 and R3
DrawFrom(R1, R2, R3) ==
    /\ pc = "gen"
    /\ i < NumCurves
    /\ \E r1 \in R1, r2 \in R2, r3 \in R3 :
          /\ randomRadius' = RadiusOf(r1)
          /\ randomStep' = StepOf(r2)
          /\ curveType' = r3 % NumTypes
    /\ pc' = "construct"
    /\ UNCHANGED <<status, heap, deleted, curves, i, circleContainer, totalSumOfRadii,
                   ompVars, out, err, ub>>

Draw == DrawFrom(RadiusDraws, StepDraws, Rand)

\* the rest of the iteration: the switch, the new-expression, push_back, ++i
Construct ==
    /\ pc = "construct"
    /\ PushNew(NewCurve(curveType, randomRadius, randomStep), "gen")
    /\ randomRadius' = 0
    /\ randomStep' = 0
    /\ curveType' = 0
    /\ UNCHANGED <<circleContainer, totalSumOfRadii, ompVars, out, ub>>

\* the generator loop ends; the header line of the report is printed
GenerateEnd ==
    /\ pc = "gen"
    /\ i >= NumCurves
    /\ pc' = "report"
    /\ i' = 0
    /\ randomRadius' = 0
    /\ randomStep' = 0
    /\ curveType' = 0
    /\ out' = Append(out, [kind |-> "header"])
    /\ UNCHANGED <<status, heap, deleted, curves, circleContainer, totalSumOfRadii,
                   ompVars, err, ub>>

\* dynamic_cast<const T*>(curve) is non-null
IsA(c, T) == c.tag = T

\* the text printed for one curve: the dynamic_cast chain, then point and derivative
ReportOf(c) ==
    [kind |-> "curve",
     desc |-> IF IsA(c, "Circle") THEN <<"Circle", getRadius(c)>>
              ELSE IF IsA(c, "Ellipse") THEN <<"Ellipse", getRadius(c)>>
              ELSE IF IsA(c, "Helix") THEN <<"Helix", getRadius(c), getStep(c)>>
              ELSE << >>,
     point |-> evaluate(c),
     deriv |-> derivative(c)]

\* the report loop walking the collection from its end
ReportReversed ==
    /\ pc = "report"
    /\ i < Len(curves)
    /\ out' = Append(out, ReportOf(heap[curves[Len(curves) - i]]))
    /\ ub' = (ub \/ deleted[curves[Len(curves) - i]] > 0)
    /\ i' = i + 1
    /\ UNCHANGED <<pc, status, heap, deleted, curves, genLocals, circleContainer,
                   totalSumOfRadii, ompVars, err>>

\* one iteration of the report loop
Report ==
    /\ pc = "report"
    /\ i < Len(curves)
    /\ out' = Append(out, ReportOf(heap[curves[i + 1]]))
    /\ ub' = (ub \/ deleted[curves[i + 1]] > 0)
    /\ i' = i + 1
    /\ UNCHANGED <<pc, status, heap, deleted, curves, genLocals, circleContainer,
                   totalSumOfRadii, ompVars, err>>

ReportEnd ==
    /\ pc = "report"
    /\ i >= Len(curves)
    /\ pc' = "filter"
    /\ i' = 0
    /\ UNCHANGED <<status, heap, deleted, curves, genLocals, circleContainer,
                   totalSumOfRadii, ompVars, out, err, ub>>

\* a filter that keeps every curve that is not an Ellipse
IsCircleOrHelix(p) == ~IsA(heap[p], "Ellipse")

\* dynamic_cast<Circle*>(curve) is non-null
IsCircle(p) == IsA(heap[p], "Circle")

\* one iteration of the filter loop
Filter ==
    /\ pc = "filter"
    /\ i < Len(curves)
    /\ circleContainer' = IF IsCircle(curves[i + 1])
                          THEN Append(circleContainer, curves[i + 1])
                          ELSE circleContainer
    /\ ub' = (ub \/ deleted[curves[i + 1]] > 0)
    /\ i' = i + 1
    /\ UNCHANGED <<pc, status, heap, deleted, curves, genLocals, totalSumOfRadii,
                   ompVars, out, err>>

FilterEnd ==
    /\ pc = "filter"
    /\ i >= Len(curves)
    /\ pc' = "sort"
    /\ i' = 0
    /\ UNCHANGED <<status, heap, deleted, curves, genLocals, circleContainer,
                   totalSumOfRadii, ompVars, out, err, ub>>

\* TRUE iff some element of the sequence of pointers is a deleted object
AnyDeleted(s) == \E k \in 1 .. Len(s) : deleted[s[k]] > 0

\* the comparator written with >
LessReversed(a, b) == getRadius(heap[a]) > getRadius(heap[b])

\* the comparator: a->getRadius() < b->getRadius()
Less(a, b) == getRadius(heap[a]) < getRadius(heap[b])

RECURSIVE LinearInsertDup(_, _)
\* an insertion that writes v over the element it should have shifted
LinearInsertDup(s, v) ==
    IF Len(s) > 0 /\ Less(v, s[Len(s)])
    THEN Append(LinearInsertDup(SubSeq(s, 1, Len(s) - 1), v), v)
    ELSE Append(s, v)

RECURSIVE LinearInsert(_, _)
\* the inner loop of insertion sort: v moves towards the front past every
\* element it compares less than
LinearInsert(s, v) ==
    IF Len(s) > 0 /\ Less(v, s[Len(s)])
    THEN Append(LinearInsert(SubSeq(s, 1, Len(s) - 1), v), s[Len(s)])
    ELSE Append(s, v)

RECURSIVE StdSort(_)
\* std::sort(first, last, comp) on a range of fewer than 16 elements is an
\* insertion sort (the vector holds at most 5 pointers).  The order it leaves
\* among equal radii is one of those std::sort allows; only radii are printed.
StdSort(s) ==
    IF Len(s) <= 1 THEN s
    ELSE LinearInsert(StdSort(SubSeq(s, 1, Len(s) - 1)), s[Len(s)])

\* the sort applied to the owning collection as well
SortOwning ==
    /\ pc = "sort"
    /\ circleContainer' = StdSort(circleContainer)
    /\ curves' = StdSort(curves)
    /\ ub' = (ub \/ (Len(circleContainer) > 1 /\ AnyDeleted(circleContainer)))
    /\ pc' = "fork"
    /\ UNCHANGED <<status, heap, deleted, i, genLocals, totalSumOfRadii,
                   ompVars, out, err>>

Sort ==
    /\ pc = "sort"
    /\ circleContainer' = StdSort(circleContainer)
    /\ ub' = (ub \/ (Len(circleContainer) > 1 /\ AnyDeleted(circleContainer)))
    /\ pc' = "fork"
    /\ UNCHANGED <<status, heap, deleted, curves, i, genLocals, totalSumOfRadii,
                   ompVars, out, err>>

\* The threads of a team differ in nothing but their number, so of the
\* divisions that differ only in the numbering of the threads one is kept:
\* thread t + 1 runs an iteration only if thread t runs an earlier one.
FirstUse(f) ==
    \A k \in DOMAIN f : f[k] > 1 => \E j \in 1 .. k - 1 : f[j] = f[k] - 1

\* double totalSumOfRadii = 0.0; then the parallel region starts: a team of
\* any size, every thread with a private copy initialised to 0, and the
\* iterations 1 .. size() divided among the threads in any way (no schedule
\* clause: a thread may get any subset, also none)
Fork ==
    /\ pc = "fork"
    /\ totalSumOfRadii' = 0
    /\ \E n \in 1 .. MaxThreads :
          /\ nthreads' = n
          /\ partial' = [t \in 1 .. n |-> 0]
          /\ \E f \in [1 .. Len(circleContainer) -> 1 .. n] :
                FirstUse(f) /\ owner' = f
    /\ iterDone' = {}
    /\ combined' = {}
    /\ pc' = "reduce"
    /\ UNCHANGED <<status, heap, deleted, curves, i, genLocals, circleContainer,
                   out, err, ub>>

\* the iterations thread t still has to run
Pending(t) == {k \in 1 .. Len(circleContainer) : owner[k] = t /\ k \notin iterDone}

Min(S) == CHOOSE x \in S : \A y \in S : x <= y

\* thread t runs its next iteration: totalSumOfRadii += circleContainer[i]->getRadius()
\* on its private copy
Iterate(t) ==
    /\ pc = "reduce"
    /\ t \in 1 .. nthreads
    /\ Pending(t) # {}
    /\ LET k == Min(Pending(t)) IN
          /\ partial' = [partial EXCEPT ![t] = @ + getRadius(heap[circleContainer[k]])]
          /\ iterDone' = iterDone \cup {k}
          /\ ub' = (ub \/ deleted[circleContainer[k]] > 0)
    /\ UNCHANGED <<pc, status, heap, deleted, curves, i, genLocals, circleContainer,
                   totalSumOfRadii, nthreads, owner, combined, out, err>>

\* thread t, its iterations done, adds its private copy to the original
\* variable (the combination of a reduction clause is atomic)
Combine(t) ==
    /\ pc = "reduce"
    /\ t \in 1 .. nthreads
    /\ Pending(t) = {}
    /\ t \notin combined
    /\ totalSumOfRadii' = totalSumOfRadii + partial[t]
    /\ combined' = combined \cup {t}
    /\ UNCHANGED <<pc, status, heap, deleted, curves, i, genLocals, circleContainer,
                   nthreads, owner, iterDone, partial, out, err, ub>>

\* a region without the barrier: the main thread (thread 1) goes on as soon
\* as it has combined its own private copy
JoinEarly ==
    /\ pc = "reduce"
    /\ 1 \in combined
    /\ nthreads' = 0
    /\ owner' = << >>
    /\ iterDone' = {}
    /\ partial' = << >>
    /\ combined' = {}
    /\ out' = Append(out, [kind |-> "sortedHeader"])
    /\ i' = 0
    /\ pc' = "print"
    /\ UNCHANGED <<status, heap, deleted, curves, genLocals, circleContainer,
                   totalSumOfRadii, err, ub>>

\* the barrier that ends the parallel region: the main thread goes on when
\* every thread of the team has combined; the header of the list is printed
Join ==
    /\ pc = "reduce"
    /\ combined = 1 .. nthreads
    /\ nthreads' = 0
    /\ owner' = << >>
    /\ iterDone' = {}
    /\ partial' = << >>
    /\ combined' = {}
    /\ out' = Append(out, [kind |-> "sortedHeader"])
    /\ i' = 0
    /\ pc' = "print"
    /\ UNCHANGED <<status, heap, deleted, curves, genLocals, circleContainer,
                   totalSumOfRadii, err, ub>>

\* a print loop that deletes each circle once it is printed
ShowCircleDelete ==
    /\ pc = "print"
    /\ i < Len(circleContainer)
    /\ out' = Append(out, [kind |-> "circle",
                           radius |-> getRadius(heap[circleContainer[i + 1]])])
    /\ deleted' = [deleted EXCEPT ![circleContainer[i + 1]] = @ + 1]
    /\ ub' = (ub \/ deleted[circleContainer[i + 1]] > 0)
    /\ i' = i + 1
    /\ UNCHANGED <<pc, status, heap, curves, genLocals, circleContainer,
                   totalSumOfRadii, ompVars, err>>

\* one iteration of the loop that prints the sorted circles
ShowCircle ==
    /\ pc = "print"
    /\ i < Len(circleContainer)
    /\ out' = Append(out, [kind |-> "circle",
                           radius |-> getRadius(heap[circleContainer[i + 1]])])
    /\ ub' = (ub \/ deleted[circleContainer[i + 1]] > 0)
    /\ i' = i + 1
    /\ UNCHANGED <<pc, status, heap, deleted, curves, genLocals, circleContainer,
                   totalSumOfRadii, ompVars, err>>

\* the loop ends and the total is printed
ShowTotal ==
    /\ pc = "print"
    /\ i >= Len(circleContainer)
    /\ out' = Append(out, [kind |-> "total", sum |-> totalSumOfRadii])
    /\ i' = 0
    /\ pc' = "delete"
    /\ UNCHANGED <<status, heap, deleted, curves, genLocals, circleContainer,
                   totalSumOfRadii, ompVars, err, ub>>

\* one iteration of the delete loop: delete curve.  Curve3D has no virtual
\* destructor and the derived classes have trivial ones: the object's storage
\* is released and nothing else runs
Delete ==
    /\ pc = "delete"
    /\ i < Len(curves)
    /\ deleted' = [deleted EXCEPT ![curves[i + 1]] = @ + 1]
    /\ ub' = (ub \/ deleted[curves[i + 1]] > 0)
    /\ i' = i + 1
    /\ UNCHANGED <<pc, status, heap, curves, genLocals, circleContainer,
                   totalSumOfRadii, ompVars, out, err>>

\* return 0
Return ==
    /\ pc = "delete"
    /\ i >= Len(curves)
    /\ pc' = "done"
    /\ status' = "exit0"
    /\ UNCHANGED <<heap, deleted, curves, i, genLocals, circleContainer,
                   totalSumOfRadii, ompVars, out, err, ub>>

Threads == 1 .. MaxThreads

AfterGenerate ==
    \/ GenerateEnd
    \/ Report
    \/ ReportEnd
    \/ Filter
    \/ FilterEnd
    \/ Sort
    \/ Fork
    \/ \E t \in Threads : Iterate(t)
    \/ \E t \in Threads : Combine(t)
    \/ Join
    \/ ShowCircle
    \/ ShowTotal
    \/ Delete
    \/ Return

Next == Draw \/ Construct \/ AfterGenerate

Spec == Init /\ [][Next]_vars

\* the scheduler runs every thread that can take a step
FairSpec == Spec /\ WF_vars(Next)

----------------------------------------------------------------------------
\* The constructors called with any parameter.  The generator only passes
\* positive ones, so ConstructAny stands for a caller that passes whatever it
\* likes to the three constructors at the place where main() constructs.

MaxNeg == 1
CtorParams == (0 - MaxNeg) .. 1

ConstructAny ==
    /\ pc = "gen"
    /\ i < NumCurves
    /\ \E ty \in 0 .. NumTypes - 1, p1, p2 \in CtorParams :
          /\ randomRadius' = p1
          /\ randomStep' = p2
          /\ curveType' = ty
          /\ PushNew(CASE ty = 0 -> Circle(p1)
                        [] ty = 1 -> Ellipse(p1, p2)
                        [] ty = 2 -> Helix(p1, p2), "gen")
    /\ UNCHANGED <<circleContainer, totalSumOfRadii, ompVars, out, ub>>

NextCtor == ConstructAny \/ AfterGenerate

SpecCtor == Init /\ [][NextCtor]_vars

----------------------------------------------------------------------------
\* The draws with every value rand() can return.

DrawAny == DrawFrom(Rand, Rand, Rand)

SpecDraw == Init /\ [][DrawAny]_vars

----------------------------------------------------------------------------
\* Properties

HasTag(p, T) == heap[p].tag = T

\* the circles of the owning collection, in its order
CirclesOf(s) == SelectSeq(s, LAMBDA p : HasTag(p, "Circle"))

\* the radius field of the circle at address p
RadiusAt(p) == heap[p].radius

RECURSIVE SumRadii(_)
SumRadii(s) == IF s = << >> THEN 0 ELSE RadiusAt(Head(s)) + SumRadii(Tail(s))

Count(s, v) == Cardinality({k \in 1 .. Len(s) : s[k] = v})

SameElements(s, q) ==
    /\ Len(s) = Len(q)
    /\ \A k \in 1 .. Len(s) : Count(s, s[k]) = Count(q, s[k])

Sorted == pc \in {"fork", "reduce", "print", "delete", "done"}

\* the generator and the report loop have ended
Reported == pc \in {"filter", "sort", "fork", "reduce", "print", "delete", "done"}

\* the main thread is in the generator loop
Generating == pc \in {"gen", "construct"}

\* the arguments of the constructor call just made are not all positive
InvalidArgs ==
    \/ curveType = 0 /\ randomRadius <= 0
    \/ curveType = 1 /\ (randomRadius <= 0 \/ randomStep <= 0)
    \/ curveType = 2 /\ (randomRadius <= 0 \/ randomStep <= 0)

AllValid ==
    \A p \in 1 .. Len(heap) :
        \/ heap[p].tag = "Circle" /\ heap[p].radius > 0
        \/ heap[p].tag = "Ellipse" /\ heap[p].a > 0 /\ heap[p].b > 0
        \/ heap[p].tag = "Helix" /\ heap[p].radius > 0 /\ heap[p].step > 0

C1_Step ==
    /\ status # "exit1"
    /\ (pc = "gen" /\ pc' # "report") =>
          /\ InvalidArgs' <=> status' = "exit1"
          /\ status' = "exit1" =>
                /\ pc' = "exit"
                /\ heap' = heap /\ curves' = curves /\ out' = out
                /\ err' # err
                /\ circleContainer' = << >> /\ totalSumOfRadii' = 0

\* C1: a constructor call with a parameter <= 0 ends the process with exit
\* code 1 and a message on the error stream, adds no object to the heap or to
\* the collection, and no step of the program follows it; every object that
\* exists has positive parameters.
C1_InvalidParameterIsFatal == [](AllValid) /\ [][C1_Step]_vars

C1_Witness ==
    /\ status = "exit1"
    /\ Len(curves) >= 1
    /\ curveType = 1 /\ randomRadius > 0 /\ randomStep < 0

\* C2: once the sort has run, the radii of the circle view are non-decreasing
\* from each position to the next.
C2_SortedAscending ==
    Sorted => \A k \in 1 .. Len(circleContainer) - 1 :
                 RadiusAt(circleContainer[k]) <= RadiusAt(circleContainer[k + 1])

C2_Witness ==
    /\ pc = "fork"
    /\ Len(circleContainer) >= 3
    /\ circleContainer # CirclesOf(curves)
    /\ \E k \in 1 .. Len(circleContainer) - 1 :
          RadiusAt(circleContainer[k]) = RadiusAt(circleContainer[k + 1])
    /\ \E k \in 1 .. Len(circleContainer) - 1 :
          RadiusAt(circleContainer[k]) < RadiusAt(circleContainer[k + 1])

C3_Total ==
    /\ \A k \in 1 .. Len(out) :
          out[k].kind = "total" => out[k].sum = SumRadii(CirclesOf(curves))
    /\ pc \in {"print", "delete", "done"} =>
          totalSumOfRadii = SumRadii(CirclesOf(curves))

C3_Barrier ==
    (pc = "reduce" /\ pc' # "reduce") =>
        /\ combined = 1 .. nthreads
        /\ iterDone = 1 .. Len(circleContainer)

\* C3: the total that is printed is the sum of the radii of the circles of
\* the collection, whatever the team size, the division of the iterations
\* and the order of the combinations; the main thread leaves the parallel
\* region only when every iteration has run and every thread has combined.
C3_ReductionTotal == [](C3_Total) /\ [][C3_Barrier]_vars

C3_Witness ==
    /\ pc = "reduce"
    /\ nthreads = 2
    /\ combined = {2}
    /\ \E k \in DOMAIN owner : owner[k] = 1
    /\ \E k \in DOMAIN owner : owner[k] = 2
    /\ iterDone # DOMAIN owner
    /\ totalSumOfRadii = partial[2]
    /\ circleContainer # CirclesOf(curves)

PosIn(s, p) == CHOOSE k \in 1 .. Len(s) : s[k] = p

\* C4: when the filter loop has ended, the view holds exactly the circles of
\* the collection, each once, in the collection's order; the view never holds
\* an Ellipse or a Helix.
C4_FilterExact ==
    /\ \A k \in 1 .. Len(circleContainer) : HasTag(circleContainer[k], "Circle")
    /\ pc = "sort" =>
          /\ \A k \in 1 .. Len(curves) :
                Count(circleContainer, curves[k])
                    = IF HasTag(curves[k], "Circle") THEN 1 ELSE 0
          /\ \A a, b \in 1 .. Len(circleContainer) :
                a < b => PosIn(curves, circleContainer[a]) < PosIn(curves, circleContainer[b])

C4_Witness ==
    /\ pc = "sort"
    /\ Len(circleContainer) = 2
    /\ \E k \in 1 .. Len(curves) : HasTag(curves[k], "Ellipse")
    /\ \E k \in 1 .. Len(curves) : HasTag(curves[k], "Helix")
    /\ HasTag(curves[1], "Helix") /\ HasTag(curves[5], "Circle")

\* C5: every run ends with exit code 0, having constructed exactly 5 curves;
\* exit code 1 is never reached.
C5_AlwaysExitZero ==
    /\ [](status # "exit1")
    /\ [](status = "exit0" => Len(heap) = NumCurves /\ Len(curves) = NumCurves)
    /\ <>(status = "exit0")

C5_Witness ==
    /\ status = "exit0"
    /\ Len(curves) = NumCurves
    /\ \A p \in 1 .. Len(heap) : heap[p].tag = "Helix" /\ heap[p].radius = Den

\* the three draws of an iteration have just been made
Drawn == pc = "construct"

\* C6 as stated: both drawn values stay below the upper end of their interval.
C6_HalfOpen ==
    Drawn => /\ Den <= randomRadius /\ randomRadius < 11 * Den
             /\ Den <= randomStep /\ randomStep < 6 * Den

\* C6: the drawn radius-like value v satisfies 1 <= v <= 11 and the drawn
\* step-like value s satisfies 1 <= s <= 6; the upper ends are reached when
\* rand() returns RAND_MAX.
C6_Closed ==
    Drawn => /\ Den <= randomRadius /\ randomRadius <= 11 * Den
             /\ Den <= randomStep /\ randomStep <= 6 * Den

C6_Witness ==
    /\ Drawn
    /\ randomRadius = 11 * Den
    /\ randomStep = 6 * Den
    /\ curveType = 2

AggregatorKinds == {"sortedHeader", "circle", "total"}

DescOf(p) ==
    CASE heap[p].tag = "Circle"  -> <<"Circle", heap[p].radius>>
      [] heap[p].tag = "Ellipse" -> <<"Ellipse", heap[p].a>>
      [] heap[p].tag = "Helix"   -> <<"Helix", heap[p].radius, heap[p].step>>

\* C7: the k-th curve report describes the k-th constructed curve with that
\* curve's variant and fields, there is one report per curve, and the 5
\* reports precede every line of the aggregator.
C7_ReportOrder ==
    /\ \A k \in 1 .. Len(out) :
          /\ out[k].kind = "curve" =>
                /\ k \in 2 .. Len(curves) + 1
                /\ out[k].desc = DescOf(curves[k - 1])
          /\ out[k].kind \in AggregatorKinds =>
                /\ k > NumCurves + 1
                /\ \A j \in 2 .. NumCurves + 1 : out[j].kind = "curve"
    /\ Reported =>
          Cardinality({k \in 1 .. Len(out) : out[k].kind = "curve"}) = NumCurves

C7_Witness ==
    /\ pc = "delete"
    /\ HasTag(curves[1], "Helix") /\ HasTag(curves[2], "Circle")
    /\ HasTag(curves[3], "Ellipse")
    /\ heap[curves[4]] # heap[curves[5]]
    /\ out[Len(out)].kind = "total"

C8_State ==
    /\ ~ub
    /\ \A p \in 1 .. Len(heap) : deleted[p] <= 1
    /\ pc \notin {"delete", "done"} => \A p \in 1 .. Len(heap) : deleted[p] = 0
    /\ status = "exit0" => \A p \in 1 .. Len(heap) : deleted[p] = 1

C8_Step ==
    \A p \in 1 .. Len(heap) :
        deleted'[p] # deleted[p] => pc = "delete" /\ i < Len(curves) /\ p = curves[i + 1]

\* C8: every curve is deleted exactly once, in the delete loop over the owning
\* collection at the end of the run, and no deleted curve is read or deleted
\* again.
C8_SoleOwner == [](C8_State) /\ [][C8_Step]_vars

C8_Witness ==
    /\ status = "exit0"
    /\ Len(circleContainer) >= 2
    /\ \A p \in 1 .. Len(heap) : deleted[p] = 1

C9_Step ==
    /\ Len(heap') >= Len(heap)
    /\ \A p \in 1 .. Len(heap) : heap'[p] = heap[p]
    /\ Len(curves') >= Len(curves)
    /\ \A k \in 1 .. Len(curves) : curves'[k] = curves[k]
    /\ ~Generating => heap' = heap /\ curves' = curves

\* C9: no step changes a constructed curve or the position of a pointer in
\* the owning collection, and after the generator no step changes the heap
\* or the owning collection at all.
C9_NoMutation == [][C9_Step]_vars

C9_Witness ==
    /\ pc = "fork"
    /\ circleContainer # CirclesOf(curves)
    /\ curves = <<1, 2, 3, 4, 5>>
    /\ Len(circleContainer) < Len(curves)

Printed == SelectSeq(out, LAMBDA r : r.kind = "circle")

\* C10: after the sort the view is a reordering of the circles of the
\* collection, and the radii printed in the sorted list are the radii of the
\* view in its order, so the same multiset as the radii of those circles.
C10_Permutation ==
    /\ Sorted => SameElements(circleContainer, CirclesOf(curves))
    /\ pc \in {"delete", "done"} =>
          /\ Len(Printed) = Len(circleContainer)
          /\ \A k \in 1 .. Len(Printed) :
                Printed[k].radius = RadiusAt(circleContainer[k])
          /\ LET want == [k \in 1 .. Len(CirclesOf(curves)) |->
                              RadiusAt(CirclesOf(curves)[k])]
                 got == [k \in 1 .. Len(Printed) |-> Printed[k].radius]
             IN SameElements(got, want)

C10_Witness ==
    /\ pc = "done"
    /\ Len(circleContainer) = 3
    /\ circleContainer # CirclesOf(curves)
    /\ RadiusAt(circleContainer[1]) < RadiusAt(circleContainer[3])

====
